---- MODULE Spec2Model ----
(***************************************************************************)
(* A model of einpartikkel's eigenpair persistence (eigenvalues_iter.py)   *)
(* and of the projection / density-of-states code of analysis.py.          *)
(*                                                                         *)
(* Strings are sequences of one-character strings, so that str(),          *)
(* replace() and normpath() are computed and not assumed.  Real numbers    *)
(* are exact rationals <<num, den>>; complex numbers are Gaussian integers *)
(* <<re, im>>.                                                             *)
(***************************************************************************)
EXTENDS Integers, Sequences, FiniteSets, TLC

VARIABLES
    nprocs,     \* pyprop.ProcCount: the number of cooperating processes
    conf,       \* the pyprop config: Eigenvalues.folder_name, .shift, radial grid
    solver,     \* the PiramSolver state handed to SaveEigenpairsSolverShiftInvert
    filename,   \* filename[p]: the local variable of line 98 in process p
    pc,         \* pc[p]: where process p stands
    idx,        \* idx[p]: the loop variable i of line 119 in process p
    turn,       \* turn[p]: whose slab is being written inside SaveWavefunctionHDF
    store,      \* the file system: path -> HDF5 file contents
    log,        \* log[p]: what process p's logger has received
    did,        \* did[p]: the file operations process p has performed
    fail,       \* the I/O steps that have raised
    loadRes,    \* loadRes[p]: what LoadEigenpairs returned to process p
    piram,      \* FindEigenvaluesInverseIterationsPiram: solver output and result
    wave,       \* EigenstateAnalysis: wavefunction, catalog and results
    dens        \* density of states: energy list and the two spacing lists

vars == <<nprocs, conf, solver, filename, pc, idx, turn, store, log, did, fail, loadRes,
          piram, wave, dens>>

(***************************************************************************)
(* Bounds of the model.                                                    *)
(***************************************************************************)
MaxProcs == 2
MaxEig == 2
RadialSize == 2
MaxLen == 3
MaxEnergy == 5
MaxBlocks == 2

(***************************************************************************)
(* Python and numpy string formatting.                                     *)
(***************************************************************************)
Max(a, b) == IF a >= b THEN a ELSE b

Abs(x) == IF x < 0 THEN -x ELSE x

Digit(d) == <<"0", "1", "2", "3", "4", "5", "6", "7", "8", "9">>[d + 1]

\* str(n) of a Python int
RECURSIVE NatStr(_)
NatStr(n) == IF n < 10 THEN <<Digit(n)>> ELSE NatStr(n \div 10) \o <<Digit(n % 10)>>

IntStr(n) == IF n < 0 THEN <<"-">> \o NatStr(-n) ELSE NatStr(n)

\* s.replace(a, b) for one-character a and b
Replace(s, a, b) == [k \in 1..Len(s) |-> IF s[k] = a THEN b ELSE s[k]]

\* sep.join(parts)
RECURSIVE Join(_, _)
Join(parts, sep) ==
    IF Len(parts) = 0 THEN <<>>
    ELSE IF Len(parts) = 1 THEN parts[1]
    ELSE parts[1] \o sep \o Join(Tail(parts), sep)

Spaces(n) == [k \in 1..n |-> " "]

RECURSIVE MaxWidth(_)
MaxWidth(v) == IF Len(v) = 0 THEN 0 ELSE Max(Len(IntStr(v[1])), MaxWidth(Tail(v)))

\* str() of a one-dimensional numpy integer array: the elements right-aligned
\* to the widest one and separated by one space
NumpyStr(v) ==
    <<"[">> \o
    Join([k \in 1..Len(v) |->
            Spaces(MaxWidth(v) - Len(IntStr(v[k]))) \o IntStr(v[k])], <<" ">>)
    \o <<"]">>

\* str() of a Python list of ints
ListStr(v) == <<"[">> \o Join([k \in 1..Len(v) |-> IntStr(v[k])], <<",", " ">>) \o <<"]">>

\* a quantum-number argument: an int, a numpy array or a list
IntKey(n) == [form |-> "int", v |-> <<n>>]
ArrayKey(v) == [form |-> "array", v |-> v]
ListKey(v) == [form |-> "list", v |-> v]

Str(key) ==
    IF key.form = "int" THEN IntStr(key.v[1])
    ELSE IF key.form = "array" THEN NumpyStr(key.v)
    ELSE ListStr(key.v)

\* os.path.normpath on a relative path without "." and "..": runs of "/" collapse
RECURSIVE Normpath(_)
Normpath(s) ==
    IF Len(s) < 2 THEN s
    ELSE IF s[1] = "/" /\ s[2] = "/" THEN Normpath(Tail(s))
    ELSE <<s[1]>> \o Normpath(Tail(s))

GetRadialPostfix(c) == c.radialPostfix

NameGeneratorBoundstates(c, l, m) ==
    LET folderName == c.folder_name
        radialPostfix == Join(GetRadialPostfix(c), <<"_">>)
        ls == Replace(Str(l), " ", "_")
        ms == Replace(Str(m), " ", "_")
        fileName == (folderName \o <<"/">>)
                    \o radialPostfix \o <<"_", "l">> \o ls \o <<"_", "m">> \o ms
                    \o <<".", "h", "5">>
    IN Normpath(fileName)

GetEigenvectorGroupName == <<"/", "E", "i", "g">>

GetEigenvectorDatasetName(i) == <<"E", "i", "g", "e", "n", "v", "e", "c", "t", "o", "r", "_">> \o IntStr(i)

GetEigenvectorDatasetPath(eigenvectorIndex) ==
    GetEigenvectorGroupName \o <<"/">> \o GetEigenvectorDatasetName(eigenvectorIndex)

(***************************************************************************)
(* Exact arithmetic.                                                       *)
(***************************************************************************)
RECURSIVE Gcd(_, _)
Gcd(a, b) == IF b = 0 THEN a ELSE Gcd(b, a % b)

\* the rational n/d in lowest terms with a positive denominator; d = 0 is inf
Rat(n, d) ==
    IF d = 0 THEN <<1, 0>>
    ELSE LET g == Gcd(Abs(n), Abs(d))
             sg == IF d < 0 THEN -1 ELSE 1
         IN <<sg * (n \div g), sg * (d \div g)>>

\* 1.0 / x + shift  (numpy: 1.0 / 0 is inf)
ShiftInvert(x, shift) == IF x = 0 THEN Rat(1, 0) ELSE Rat(1 + shift * x, x)

RECURSIVE SortSet(_)
SortSet(S) ==
    IF S = {} THEN <<>>
    ELSE LET mn == CHOOSE x \in S : \A y \in S : x <= y
         IN <<mn>> \o SortSet(S \ {mn})

\* sort(unique(list))
SortUnique(v) == SortSet({v[k] : k \in 1..Len(v)})

(***************************************************************************)
(* The solver state and the configuration.                                 *)
(***************************************************************************)
LmIndex(l, m) == [l |-> l, m |-> m]

\* angular ranges of the solver's wavefunction: the LmIndex of each row
AngularRanges ==
    { <<LmIndex(0, 0)>>,
      <<LmIndex(0, 0), LmIndex(1, 0)>>,
      <<LmIndex(1, -1), LmIndex(1, 0), LmIndex(1, 1)>> }

Configs ==
    { [folder_name |-> <<"d">>, radialPostfix |-> <<<<"g">>, <<"8">>>>, shift |-> -1],
      [folder_name |-> <<"d", "/">>, radialPostfix |-> <<<<"g">>, <<"8">>>>, shift |-> 0] }

\* a solver state: gen tells one computation from another
SolverState(gen, n, range) == [gen |-> gen, n |-> n, range |-> range]

\* solver.GetEigenvalues(): the eigenvalues of the shift-inverted operator
GetEigenvalues(s) ==
    [k \in 1..s.n |-> IF k % 2 = 1 THEN s.gen + k ELSE -(s.gen + k)]

\* solver.SetEigenvector(psi, i): psi holds eigenvector i, one row per
\* angular block, one column per radial point
SetEigenvector(s, i) ==
    [r \in 1..Len(s.range) |-> [c \in 1..RadialSize |-> <<s.gen, i, r, c>>]]

GetErrorEstimates(s) == [k \in 1..s.n |-> <<s.gen, k, 1>>]
GetConvergenceEstimates(s) == [k \in 1..s.n |-> <<s.gen, k, 2>>]
GetErrorEstimateList(s) == [k \in 1..s.n |-> <<s.gen, k, 3>>]
GetOperatorCount(s) == 10 * s.gen + s.n
GetRestartCount(s) == s.gen
GetOrthogonalizationCount(s) == 20 * s.gen + s.n

(***************************************************************************)
(* The HDF5 store.  An optional value is <<>> (absent) or <<v>>.           *)
(***************************************************************************)
None == <<>>
Some(v) == <<v>>

ArrayOrder == <<"Eigenvalues", "ErrorEstimateListGMRES",
                "ErrorEstimateListPIRAM", "ConvergenceEstimateEig">>
AttrOrder == <<"configObject", "opCount", "restartCount", "orthCount">>
ArrayNames == {ArrayOrder[k] : k \in 1..Len(ArrayOrder)}
AttrNames == {AttrOrder[k] : k \in 1..Len(AttrOrder)}

EmptyFile ==
    [vecs |-> [i \in 0..(MaxEig - 1) |-> None],
     arrays |-> [a \in ArrayNames |-> None],
     attrs |-> [a \in AttrNames |-> None]]

\* os.path.exists(filename)
Exists(st, path) == path \in DOMAIN st

\* os.remove left out: the old file stays
RemoveFileKeeps(st, path) == st

\* os.remove(filename)
RemoveFile(st, path) == [q \in DOMAIN st \ {path} |-> st[q]]

PutFile(st, path, f) == [q \in DOMAIN st \cup {path} |-> IF q = path THEN f ELSE st[q]]

\* the columns of the wavefunction that process p holds
LocalSlab(p, n) == {c \in 1..RadialSize : (c - 1) % n = p}

\* one process's turn inside pyprop's SaveWavefunctionHDF: the file and the
\* dataset are created when missing, and the process's slab is written
SaveLocalSlab(st, path, i, data, cols) ==
    LET f == IF Exists(st, path) THEN st[path] ELSE EmptyFile
        old == f.vecs[i]
        new == [r \in 1..Len(data) |-> [c \in 1..RadialSize |->
                  IF c \in cols THEN data[r][c]
                  ELSE IF old # None /\ r <= Len(old[1]) THEN old[1][r][c]
                  ELSE None]]
    IN PutFile(st, path, [f EXCEPT !.vecs[i] = Some(new)])

\* RemoveExistingDataset(filename, "/Eig/<name>") for the four arrays
RemoveExistingDataset(st, path) ==
    IF Exists(st, path)
    THEN [st EXCEPT ![path].arrays = [a \in ArrayNames |-> None]]
    ELSE st

\* the values lines 136-139 store
ArrayValue(c, s, name) ==
    IF name = "Eigenvalues"
    THEN [k \in 1..s.n |-> ShiftInvert(GetEigenvalues(s)[k], c.shift)]
    ELSE IF name = "ErrorEstimateListGMRES" THEN GetErrorEstimateList(s)
    ELSE IF name = "ErrorEstimateListPIRAM" THEN GetErrorEstimates(s)
    ELSE GetConvergenceEstimates(s)

\* the values lines 142-147 store
AttrValue(c, s, name) ==
    IF name = "configObject" THEN <<c.folder_name>>
    ELSE IF name = "opCount" THEN <<GetOperatorCount(s)>>
    ELSE IF name = "restartCount" THEN <<GetRestartCount(s)>>
    ELSE <<GetOrthogonalizationCount(s)>>

\* h5file.createArray for the first k arrays of lines 136-139
CreateArrays(st, path, c, s, k) ==
    [st EXCEPT ![path].arrays =
        [a \in ArrayNames |->
            IF \E j \in 1..k : ArrayOrder[j] = a
            THEN Some(ArrayValue(c, s, a)) ELSE @[a]]]

\* the first k attribute assignments of lines 142-147
SetAttrs(st, path, c, s, k) ==
    [st EXCEPT ![path].attrs =
        [a \in AttrNames |->
            IF \E j \in 1..k : AttrOrder[j] = a
            THEN Some(AttrValue(c, s, a)) ELSE @[a]]]

\* the file a save of solver state s leaves when nothing fails
SavedFile(c, s) ==
    [vecs |-> [i \in 0..(MaxEig - 1) |->
                  IF i < s.n THEN Some(SetEigenvector(s, i)) ELSE None],
     arrays |-> [a \in ArrayNames |-> Some(ArrayValue(c, s, a))],
     attrs |-> [a \in AttrNames |-> Some(AttrValue(c, s, a))]]

(***************************************************************************)
(* SaveEigenpairsSolverShiftInvert, run by every process of the group.     *)
(***************************************************************************)
Procs == 0..(nprocs - 1)

\* lines 94-95 and 98: the file name of the solver's angular range
SaveFilename(c, s) ==
    LET l == SortUnique([k \in 1..Len(s.range) |-> s.range[k].l])
        m == SortUnique([k \in 1..Len(s.range) |-> s.range[k].m])
    IN NameGeneratorBoundstates(c, ArrayKey(l), ArrayKey(m))

\* the ProcId test of line 112 left out: every process removes the file
RemovesFileAnyProc(p) == TRUE

\* line 112: "if pyprop.ProcId == 0" around os.remove
RemovesFile(p) == p = 0

\* line 123: "if pyprop.ProcId == 0" around the dataset and attribute writes
WritesMetadata(p) == p = 0

\* where a process goes when the loop of lines 119-121 is over: the block of
\* lines 123-153, pypar.barrier() included, or the end of the function
AfterLoop(p) == IF WritesMetadata(p) THEN "meta" ELSE "done"

Logged(p, entries) == log' = [log EXCEPT ![p] = @ \o entries]
Did(p, op) == did' = [did EXCEPT ![p] = @ \cup {op}]
Goto(p, label) == pc' = [pc EXCEPT ![p] = label]

StoringInfo == <<"info", "Now storing eigenvectors...">>
RemoveError == <<"error", "Could not remove">>
StoreWarning == <<"warning", "Warning: could not store eigenvalues and error estimates!">>

\* lines 110-113 and 118: the file exists, this process is the one that removes it
SaveRemoveOk(p) ==
    /\ pc[p] = "start"
    /\ Exists(store, filename[p]) /\ RemovesFile(p)
    /\ store' = RemoveFile(store, filename[p])
    /\ Did(p, "os.remove")
    /\ Logged(p, <<StoringInfo>>)
    /\ Goto(p, "store")
    /\ UNCHANGED <<nprocs, conf, solver, filename, idx, turn, fail, loadRes, piram, wave, dens>>

\* lines 110-115 and 118: os.remove raises, the error is logged, the save goes on
SaveRemoveFails(p) ==
    /\ pc[p] = "start"
    /\ Exists(store, filename[p]) /\ RemovesFile(p)
    /\ Did(p, "os.remove")
    /\ fail' = fail \cup {"remove"}
    /\ Logged(p, <<RemoveError, StoringInfo>>)
    /\ Goto(p, "store")
    /\ UNCHANGED <<nprocs, conf, solver, filename, idx, turn, store, loadRes, piram, wave, dens>>

\* lines 110-113 and 118: no file, or another process's business
SaveNoRemove(p) ==
    /\ pc[p] = "start"
    /\ ~(Exists(store, filename[p]) /\ RemovesFile(p))
    /\ Logged(p, <<StoringInfo>>)
    /\ Goto(p, "store")
    /\ UNCHANGED <<nprocs, conf, solver, filename, idx, turn, store, did, fail, loadRes,
                   piram, wave, dens>>

\* lines 119-121, this process's turn in SaveWavefunctionHDF: it writes its
\* slab of eigenvector idx[p]; a single process goes straight on, a group
\* meets at the barrier that ends the turn
StoreSlab(p) ==
    /\ pc[p] = "store" /\ turn[p] = p
    /\ store' = SaveLocalSlab(store, filename[p], idx[p],
                              SetEigenvector(solver, idx[p]), LocalSlab(p, nprocs))
    /\ Did(p, "SaveWavefunctionHDF")
    /\ IF nprocs = 1
       THEN /\ idx' = [idx EXCEPT ![p] = @ + 1]
            /\ Goto(p, IF idx[p] + 1 < solver.n THEN "store" ELSE AfterLoop(p))
       ELSE /\ idx' = idx
            /\ Goto(p, "sync")
    /\ UNCHANGED <<nprocs, conf, solver, filename, turn, log, fail, loadRes, piram, wave, dens>>

\* lines 119-121, another process's turn: this one goes to the barrier
StoreWait(p) ==
    /\ pc[p] = "store" /\ turn[p] # p
    /\ Goto(p, "sync")
    /\ UNCHANGED <<nprocs, conf, solver, filename, idx, turn, store, log, did, fail, loadRes,
                   piram, wave, dens>>

\* the barrier that ends a turn of SaveWavefunctionHDF: all processes leave it
\* together, for the next turn, the next eigenvector or the end of the loop
StoreBarrier ==
    /\ nprocs > 1
    /\ \A p \in Procs : pc[p] = "sync"
    /\ turn' = [p \in Procs |-> IF turn[p] + 1 < nprocs THEN turn[p] + 1 ELSE 0]
    /\ idx' = [p \in Procs |-> IF turn[p] + 1 < nprocs THEN idx[p] ELSE idx[p] + 1]
    /\ pc' = [p \in Procs |->
                IF turn[p] + 1 < nprocs \/ idx[p] + 1 < solver.n
                THEN "store" ELSE AfterLoop(p)]
    /\ UNCHANGED <<nprocs, conf, solver, filename, store, log, did, fail, loadRes, piram, wave, dens>>

\* lines 124-131: the four RemoveExistingDataset calls
MetaRemoveDatasets(p) ==
    /\ pc[p] = "meta"
    /\ store' = RemoveExistingDataset(store, filename[p])
    /\ Did(p, "RemoveExistingDataset")
    /\ Goto(p, "open")
    /\ UNCHANGED <<nprocs, conf, solver, filename, idx, turn, log, fail, loadRes, piram, wave, dens>>

\* line 132: tables.openFile(filename, "r+")
OpenOk(p) ==
    /\ pc[p] = "open"
    /\ Exists(store, filename[p])
    /\ Goto(p, "arrays")
    /\ UNCHANGED <<nprocs, conf, solver, filename, idx, turn, store, log, did, fail, loadRes,
                   piram, wave, dens>>

\* line 132 raises (outside the try of line 133): the save raises
OpenFails(p) ==
    /\ pc[p] = "open"
    /\ fail' = fail \cup {"open"}
    /\ Goto(p, "raised")
    /\ UNCHANGED <<nprocs, conf, solver, filename, idx, turn, store, log, did, loadRes,
                   piram, wave, dens>>

\* lines 135-139: the four arrays are created
WriteArraysOk(p) ==
    /\ pc[p] = "arrays"
    /\ store' = CreateArrays(store, filename[p], conf, solver,
                             Len(ArrayOrder))
    /\ Did(p, "createArray")
    /\ Goto(p, "attrs")
    /\ UNCHANGED <<nprocs, conf, solver, filename, idx, turn, log, fail, loadRes, piram, wave, dens>>

\* lines 135-139 and 148-151: a createArray raises after k arrays; the except
\* clause logs a warning, the file is closed and the function goes on to line 153
WriteArraysFails(p, k) ==
    /\ pc[p] = "arrays"
    /\ store' = CreateArrays(store, filename[p], conf, solver, k)
    /\ Did(p, "createArray")
    /\ fail' = fail \cup {"write"}
    /\ Logged(p, <<StoreWarning>>)
    /\ Goto(p, "barrier")
    /\ UNCHANGED <<nprocs, conf, solver, filename, idx, turn, loadRes, piram, wave, dens>>

\* lines 142-147 and 150-151: the four attributes are set, the file is closed
WriteAttrsOk(p) ==
    /\ pc[p] = "attrs"
    /\ store' = SetAttrs(store, filename[p], conf, solver, Len(AttrOrder))
    /\ Did(p, "setAttr")
    /\ Goto(p, "barrier")
    /\ UNCHANGED <<nprocs, conf, solver, filename, idx, turn, log, fail, loadRes, piram, wave, dens>>

\* lines 142-151: an attribute assignment raises after k attributes
WriteAttrsFails(p, k) ==
    /\ pc[p] = "attrs"
    /\ store' = SetAttrs(store, filename[p], conf, solver, k)
    /\ Did(p, "setAttr")
    /\ fail' = fail \cup {"write"}
    /\ Logged(p, <<StoreWarning>>)
    /\ Goto(p, "barrier")
    /\ UNCHANGED <<nprocs, conf, solver, filename, idx, turn, loadRes, piram, wave, dens>>

\* line 153: pypar.barrier() is collective: it returns in a process once every
\* process of the group has called it
FinalBarrier ==
    /\ \A p \in Procs : pc[p] = "barrier"
    /\ pc' = [p \in Procs |-> "done"]
    /\ did' = [p \in Procs |-> did[p] \cup {"barrier"}]
    /\ UNCHANGED <<nprocs, conf, solver, filename, idx, turn, store, log, fail, loadRes,
                   piram, wave, dens>>

(***************************************************************************)
(* LoadEigenpairs, called by a process that has returned from the save.    *)
(***************************************************************************)
\* logger.error in place of logger.warning at line 171
MissingAsError == <<"error", "Eigenstates file does not exist, skipping">>

MissingWarning == <<"warning", "Eigenstates file does not exist, skipping">>
LoadingValuesInfo == <<"info", "Now loading eigenvalues...">>
LoadingVectorsInfo == <<"info", "Now loading eigenvectors...">>

\* the (l, m) arguments callers pass
LoadKeys ==
    { <<IntKey(0), IntKey(0)>>,
      <<IntKey(1), IntKey(0)>>,
      <<ArrayKey(<<0>>), ArrayKey(<<0>>)>>,
      <<ArrayKey(<<0, 1>>), ArrayKey(<<0>>)>>,
      <<ArrayKey(<<1>>), ArrayKey(<<-1, 0, 1>>)>>,
      <<ListKey(<<0, 1>>), ListKey(<<0>>)>> }

\* the coordinating process is past its last write (line 151)
CoordinatorFinished == pc[0] \in {"barrier", "done", "loaded"}

\* the save has written everything and no write of it has failed
SaveComplete == CoordinatorFinished /\ fail \cap {"write", "open"} = {}

NoLoad ==
    [called |-> FALSE, l |-> IntKey(0), m |-> IntKey(0), path |-> <<>>, E |-> <<>>,
     V |-> <<>>, outcome |-> "none", opened |-> {}, complete |-> FALSE]

\* line 178: GetArrayFromHDF5(filename, "/Eig", "Eigenvalues")
GetArrayFromHDF5(f, name) == f.arrays[name][1]

\* line 184: h5file.getNode(GetEigenvectorDatasetPath(i)) finds a dataset
HasNode(f, i) == i \in DOMAIN f.vecs /\ f.vecs[i] # None

\* lines 183-185: V += [myGroup[0,:]] for i in range(len(E))
LoadedVectors(f, n) == [k \in 1..n |-> f.vecs[k - 1][1][1]]

\* lines 170-173: no file: a warning and two empty lists
LoadMissing(p, l, m) ==
    /\ pc[p] = "done"
    /\ ~Exists(store, NameGeneratorBoundstates(conf, l, m))
    /\ loadRes' = [loadRes EXCEPT ![p] =
          [called |-> TRUE, l |-> l, m |-> m,
           path |-> NameGeneratorBoundstates(conf, l, m),
           E |-> <<>>, V |-> <<>>, outcome |-> "returned", opened |-> {},
           complete |-> SaveComplete]]
    /\ Logged(p, <<MissingWarning>>)
    /\ Goto(p, "loaded")
    /\ UNCHANGED <<nprocs, conf, solver, filename, idx, turn, store, did, fail, piram, wave, dens>>

\* lines 175-187: the file is there and holds what is asked of it
LoadOk(p, l, m) ==
    LET path == NameGeneratorBoundstates(conf, l, m) IN
    /\ pc[p] = "done"
    /\ Exists(store, path)
    /\ store[path].arrays["Eigenvalues"] # None
    /\ \A i \in 0..(Len(GetArrayFromHDF5(store[path], "Eigenvalues")) - 1) :
          HasNode(store[path], i)
    /\ loadRes' = [loadRes EXCEPT ![p] =
          [called |-> TRUE, l |-> l, m |-> m, path |-> path,
           E |-> GetArrayFromHDF5(store[path], "Eigenvalues"),
           V |-> LoadedVectors(store[path],
                      Len(GetArrayFromHDF5(store[path], "Eigenvalues"))),
           outcome |-> "returned", opened |-> {path}, complete |-> SaveComplete]]
    /\ Logged(p, <<LoadingValuesInfo, LoadingVectorsInfo>>)
    /\ Goto(p, "loaded")
    /\ UNCHANGED <<nprocs, conf, solver, filename, idx, turn, store, did, fail, piram, wave, dens>>

\* lines 175-185: the file is there but the array or an eigenvector is not:
\* GetArrayFromHDF5 or getNode raises
LoadRaises(p, l, m) ==
    LET path == NameGeneratorBoundstates(conf, l, m) IN
    /\ pc[p] = "done"
    /\ Exists(store, path)
    /\ \/ store[path].arrays["Eigenvalues"] = None
       \/ /\ store[path].arrays["Eigenvalues"] # None
          /\ \E i \in 0..(Len(GetArrayFromHDF5(store[path], "Eigenvalues")) - 1) :
                ~HasNode(store[path], i)
    /\ loadRes' = [loadRes EXCEPT ![p] =
          [called |-> TRUE, l |-> l, m |-> m, path |-> path, E |-> <<>>, V |-> <<>>,
           outcome |-> "raised", opened |-> {path}, complete |-> SaveComplete]]
    /\ Logged(p, IF store[path].arrays["Eigenvalues"] = None
                 THEN <<LoadingValuesInfo>>
                 ELSE <<LoadingValuesInfo, LoadingVectorsInfo>>)
    /\ Goto(p, "loaded")
    /\ UNCHANGED <<nprocs, conf, solver, filename, idx, turn, store, did, fail, piram, wave, dens>>

(***************************************************************************)
(* The specification of the eigenpair store.                               *)
(***************************************************************************)
EmptyStore == [q \in {} |-> EmptyFile]

\* what the target path holds before the save: nothing, or the file an
\* earlier save left (of another solver state, or of the same one)
InitialStores(c, s) ==
    {EmptyStore} \cup
    { PutFile(EmptyStore, SaveFilename(c, s), SavedFile(c, SolverState(g, n0, s.range))) :
        g \in 1..2, n0 \in 1..MaxEig }

Init ==
    /\ nprocs \in 1..MaxProcs
    /\ conf \in Configs
    /\ solver \in {SolverState(2, n, r) : n \in 1..MaxEig, r \in AngularRanges}
    /\ store \in InitialStores(conf, solver)
    /\ filename = [p \in Procs |-> SaveFilename(conf, solver)]
    /\ pc = [p \in Procs |-> "start"]
    /\ idx = [p \in Procs |-> 0]
    /\ turn = [p \in Procs |-> 0]
    /\ log = [p \in Procs |-> <<>>]
    /\ did = [p \in Procs |-> {}]
    /\ fail = {}
    /\ loadRes = [p \in Procs |-> NoLoad]
    /\ piram = <<>>
    /\ wave = <<>>
    /\ dens = <<>>

SaveStep(p) ==
    \/ SaveRemoveOk(p)
    \/ SaveRemoveFails(p)
    \/ SaveNoRemove(p)
    \/ StoreSlab(p)
    \/ StoreWait(p)
    \/ MetaRemoveDatasets(p)
    \/ OpenOk(p)
    \/ OpenFails(p)
    \/ WriteArraysOk(p)
    \/ \E k \in 0..(Len(ArrayOrder) - 1) : WriteArraysFails(p, k)
    \/ WriteAttrsOk(p)
    \/ \E k \in 0..(Len(AttrOrder) - 1) : WriteAttrsFails(p, k)

Next ==
    \/ \E p \in Procs : SaveRemoveOk(p)
    \/ \E p \in Procs : SaveRemoveFails(p)
    \/ \E p \in Procs : SaveNoRemove(p)
    \/ \E p \in Procs : StoreSlab(p)
    \/ \E p \in Procs : StoreWait(p)
    \/ StoreBarrier
    \/ \E p \in Procs : MetaRemoveDatasets(p)
    \/ \E p \in Procs : OpenOk(p)
    \/ \E p \in Procs : OpenFails(p)
    \/ \E p \in Procs : WriteArraysOk(p)
    \/ \E p \in Procs : \E k \in 0..(Len(ArrayOrder) - 1) : WriteArraysFails(p, k)
    \/ \E p \in Procs : WriteAttrsOk(p)
    \/ \E p \in Procs : \E k \in 0..(Len(AttrOrder) - 1) : WriteAttrsFails(p, k)
    \/ FinalBarrier
    \/ \E p \in Procs : \E key \in LoadKeys : LoadMissing(p, key[1], key[2])
    \/ \E p \in Procs : \E key \in LoadKeys : LoadOk(p, key[1], key[2])
    \/ \E p \in Procs : \E key \in LoadKeys : LoadRaises(p, key[1], key[2])

Spec == Init /\ [][Next]_vars

\* every process inside the save keeps running while it can take a step; a
\* barrier returns once every process has called it
FairSpec ==
    /\ Spec
    /\ \A p \in 0..(MaxProcs - 1) : WF_vars(p \in Procs /\ SaveStep(p))
    /\ WF_vars(StoreBarrier)
    /\ WF_vars(FinalBarrier)

(***************************************************************************)
(* Properties of the eigenpair store.                                      *)
(***************************************************************************)
Returned(p) == pc[p] \in {"done", "loaded"}

TargetFile == store[SaveFilename(conf, solver)]

\* the file holds eigenvectors 0..N-1 of the current solver state, whole
HoldsCurrentVectors ==
    /\ Exists(store, SaveFilename(conf, solver))
    /\ \A i \in 0..(solver.n - 1) : TargetFile.vecs[i] = Some(SetEigenvector(solver, i))

\* no eigenvector, array or attribute of the file comes from an earlier save
NothingLeftOver ==
    /\ Exists(store, SaveFilename(conf, solver))
    /\ \A i \in DOMAIN TargetFile.vecs : i >= solver.n => TargetFile.vecs[i] = None
    /\ \A a \in ArrayNames :
          TargetFile.arrays[a] \in {None, Some(ArrayValue(conf, solver, a))}
    /\ \A a \in AttrNames :
          TargetFile.attrs[a] \in {None, Some(AttrValue(conf, solver, a))}

\* C1: no process returns from the save before process 0 has finished writing
\* the arrays and the attributes, and every process that returns has taken
\* part in the collective barrier.
C1_NoReturnBeforeCoordinatorWrote ==
    \A p \in Procs : Returned(p) => (CoordinatorFinished /\ "barrier" \in did[p])

\* C2: a load after a complete save, for the key the save used, resolves to
\* the file of the save and returns the eigenvalues written and, one by one,
\* the eigenvectors stored.
C2_RoundTrip ==
    \A p \in Procs :
        ( /\ loadRes[p].called
          /\ loadRes[p].complete
          /\ loadRes[p].l = ArrayKey(SortUnique([k \in 1..Len(solver.range) |-> solver.range[k].l]))
          /\ loadRes[p].m = ArrayKey(SortUnique([k \in 1..Len(solver.range) |-> solver.range[k].m])) )
        => /\ loadRes[p].path = SaveFilename(conf, solver)
           /\ loadRes[p].outcome = "returned"
           /\ loadRes[p].E = [k \in 1..solver.n |->
                                 ShiftInvert(GetEigenvalues(solver)[k], conf.shift)]
           /\ Len(loadRes[p].V) = solver.n
           /\ \A k \in 1..Len(loadRes[p].V) :
                 SetEigenvector(solver, k - 1) = <<loadRes[p].V[k]>>

\* C3: a load for a key whose file does not exist returns two empty
\* sequences, logs one entry, a warning, raises nothing, opens no file and
\* leaves the store as it was.
C3_MissingFileLoad ==
    [][\A p \in Procs :
          (pc[p] = "done" /\ pc'[p] = "loaded" /\ ~(loadRes'[p].path \in DOMAIN store))
          => /\ loadRes'[p].E = <<>>
             /\ loadRes'[p].V = <<>>
             /\ loadRes'[p].outcome = "returned"
             /\ loadRes'[p].opened = {}
             /\ store' = store
             /\ Len(log'[p]) = Len(log[p]) + 1
             /\ log'[p][Len(log'[p])][1] = "warning"]_vars

C3_Witness ==
    \E p \in Procs :
        /\ loadRes[p].called
        /\ ~(loadRes[p].path \in DOMAIN store)
        /\ loadRes[p].outcome = "returned"
        /\ loadRes[p].V = <<>>

C6_WriteFailurePropagates ==
    /\ "remove" \in fail => \E k \in 1..Len(log[0]) : log[0][k][1] = "error"
    /\ \A p \in Procs : (fail \cap {"write", "open"} # {}) => ~Returned(p)

\* C7: the file deletion, the dataset removal and the array and attribute
\* writes are performed by process 0 and by no other process.
C7_SingleCoordinator ==
    /\ \A p \in Procs :
          did[p] \cap {"os.remove", "RemoveExistingDataset", "createArray", "setAttr"} # {}
          => p = 0
    /\ CoordinatorFinished => {"RemoveExistingDataset", "createArray"} \subseteq did[0]
    /\ (CoordinatorFinished /\ ~("write" \in fail)) => "setAttr" \in did[0]

C7_Witness ==
    /\ nprocs > 1
    /\ CoordinatorFinished
    /\ {"os.remove", "RemoveExistingDataset", "createArray", "setAttr"} \subseteq did[0]
    /\ \A p \in Procs \ {0} : Returned(p) /\ "SaveWavefunctionHDF" \in did[p]

\* C10: when no I/O step raises, every process's call to the save
\* eventually returns.
C10_EveryCallReturns ==
    <>(fail # {} \/ \A p \in Procs : Returned(p))

(***************************************************************************)
(* FindEigenvaluesInverseIterationsPiram, lines 63-73.                     *)
(***************************************************************************)
\* the values the solver hands back
InvertedEigenvalues == {-2, 1, 2}
ConvergenceEstimates == {-2, -1, 0, 1}
Shifts == {-1, 0}

\* "estimates <= 0" in place of "estimates < 0" at line 66
ConvergedOrZero(estimate) == estimate <= 0

\* line 66: estimates < 0
Converged(estimate) == estimate < 0

\* line 66: where(estimates < 0)[0], the indices in ascending order
Where(estimates) == SortSet({k \in 1..Len(estimates) : Converged(estimates[k])})

\* lines 64-71
FindEigenvalues(ev, estimates, shift) ==
    LET ix == Where(estimates)
        eigenvalues == [k \in 1..Len(ix) |-> ev[ix[k]]]
    IN [k \in 1..Len(eigenvalues) |-> ShiftInvert(eigenvalues[k], shift)]

InitPiram ==
    /\ \E n \in 1..MaxLen :
          piram \in [ev : [1..n -> InvertedEigenvalues],
                     estimates : [1..n -> ConvergenceEstimates],
                     shift : Shifts, returned : {FALSE}, eigenvalues : {<<>>}]
    /\ nprocs = 0 /\ conf = <<>> /\ solver = <<>> /\ filename = <<>> /\ pc = <<>>
    /\ idx = <<>> /\ turn = <<>> /\ store = <<>> /\ log = <<>> /\ did = <<>>
    /\ fail = {} /\ loadRes = <<>> /\ wave = <<>> /\ dens = <<>>

FindEigenvaluesInverseIterationsPiram ==
    /\ ~piram.returned
    /\ piram' = [piram EXCEPT
          !.returned = TRUE,
          !.eigenvalues = FindEigenvalues(piram.ev, piram.estimates, piram.shift)]
    /\ UNCHANGED <<nprocs, conf, solver, filename, pc, idx, turn, store, log, did, fail,
                   loadRes, wave, dens>>

NextPiram == FindEigenvaluesInverseIterationsPiram

SpecPiram == InitPiram /\ [][NextPiram]_vars

\* C4: the eigenvalues returned are exactly the solver eigenvalues whose
\* convergence estimate is strictly negative, in their order, each x given
\* as 1/x + shift; none is returned for an estimate that is zero or positive.
C4_NegativeEstimatesOnly ==
    piram.returned =>
        LET neg == {k \in 1..Len(piram.estimates) : piram.estimates[k] < 0}
            rank(k) == Cardinality({j \in neg : j <= k})
        IN /\ Len(piram.eigenvalues) = Cardinality(neg)
           /\ \A k \in neg :
                 LET q == piram.eigenvalues[rank(k)]
                 IN /\ q[2] > 0
                    /\ q[1] * piram.ev[k] = q[2] * (1 + piram.shift * piram.ev[k])

C4_Witness ==
    /\ piram.returned
    /\ Len(piram.eigenvalues) = 2
    /\ Len(piram.estimates) = 3
    /\ piram.estimates[1] = 0
    /\ piram.estimates[2] = -2
    /\ piram.estimates[3] = -1

(***************************************************************************)
(* The density of states of CalculateEnergyDistribution (lines 158-164)    *)
(* and of CalculateAngularDistribution (lines 263-268).                    *)
(***************************************************************************)
\* numpy.diff
Diff(v) == [k \in 1..(Len(v) - 1) |-> v[k + 1] - v[k]]

\* v[:-1] and v[1:]
DropLast(v) == SubSeq(v, 1, Len(v) - 1)
DropFirst(v) == SubSeq(v, 2, Len(v))

\* lines 159-163
EnergySpacing(curE) ==
    LET a == Diff(DropLast(curE))
        b == Diff(DropFirst(curE))
        interiorSpacing == [k \in 1..Len(a) |-> Rat(a[k] + b[k], 2)]
        leftSpacing == Rat(curE[2] - curE[1], 2)
        rightSpacing == Rat(curE[Len(curE)] - curE[Len(curE) - 1], 2)
    IN <<leftSpacing>> \o interiorSpacing \o <<rightSpacing>>

\* lines 264-267
AngularSpacing(curE) ==
    LET d == DropFirst(Diff(curE))
        interiorSpacing == [k \in 1..Len(d) |-> Rat(d[k], 1)]
        leftSpacing == Rat(curE[2] - curE[1], 1)
        rightSpacing == Rat(curE[Len(curE)] - curE[Len(curE) - 1], 1)
    IN <<leftSpacing>> \o interiorSpacing \o <<rightSpacing>>

\* the energy lists of one angular block: strictly increasing
EnergyLists ==
    {e \in UNION {[1..n -> 0..MaxEnergy] : n \in 2..(MaxLen + 1)} :
        \A k \in 1..(Len(e) - 1) : e[k] < e[k + 1]}

InitDensity ==
    /\ dens \in [curE : EnergyLists, energy : {<<>>}, angular : {<<>>}]
    /\ nprocs = 0 /\ conf = <<>> /\ solver = <<>> /\ filename = <<>> /\ pc = <<>>
    /\ idx = <<>> /\ turn = <<>> /\ store = <<>> /\ log = <<>> /\ did = <<>>
    /\ fail = {} /\ loadRes = <<>> /\ wave = <<>> /\ piram = <<>>

CalculateEnergyDistribution ==
    /\ dens.energy = <<>>
    /\ dens' = [dens EXCEPT !.energy = EnergySpacing(dens.curE)]
    /\ UNCHANGED <<nprocs, conf, solver, filename, pc, idx, turn, store, log, did, fail,
                   loadRes, wave, piram>>

CalculateAngularDistribution ==
    /\ dens.angular = <<>>
    /\ dens' = [dens EXCEPT !.angular = AngularSpacing(dens.curE)]
    /\ UNCHANGED <<nprocs, conf, solver, filename, pc, idx, turn, store, log, did, fail,
                   loadRes, wave, piram>>

NextDensity == CalculateEnergyDistribution \/ CalculateAngularDistribution

SpecDensity == InitDensity /\ [][NextDensity]_vars

\* the spacing list of the claim: n entries, (E[i+1] - E[i-1]) / 2 inside and
\* half the edge spacing at the two ends
IsSymmetricSpacing(sp, e) ==
    /\ Len(sp) = Len(e)
    /\ \A i \in 1..Len(e) :
          /\ sp[i][2] > 0
          /\ 2 * sp[i][1] = sp[i][2] *
                (IF i = 1 THEN e[2] - e[1]
                 ELSE IF i = Len(e) THEN e[i] - e[i - 1]
                 ELSE e[i + 1] - e[i - 1])

\* C9: for a strictly increasing energy list, CalculateAngularDistribution
\* uses the same spacing per eigenvalue as CalculateEnergyDistribution: the
\* symmetric difference inside, half the edge spacing at the ends, n entries.
C9_SameSpacing ==
    /\ dens.energy # <<>> => IsSymmetricSpacing(dens.energy, dens.curE)
    /\ dens.angular # <<>> => IsSymmetricSpacing(dens.angular, dens.curE)
    /\ (dens.energy # <<>> /\ dens.angular # <<>>) => dens.angular = dens.energy

(***************************************************************************)
(* EigenstateAnalysis: projection on bound states (analysis.py 47-110,     *)
(* 300-310).  A wavefunction is a sequence of rows, one per angular block, *)
(* of complex numbers <<re, im>>.                                          *)
(***************************************************************************)
CAdd(x, y) == <<x[1] + y[1], x[2] + y[2]>>
CSub(x, y) == <<x[1] - y[1], x[2] - y[2]>>
CMul(x, y) == <<x[1] * y[1] - x[2] * y[2], x[1] * y[2] + x[2] * y[1]>>
\* numpy.conj
Conj(x) == <<x[1], -x[2]>>
\* abs(x)**2
Abs2(x) == x[1] * x[1] + x[2] * x[2]

RECURSIVE CSum(_)
CSum(v) == IF Len(v) = 0 THEN <<0, 0>> ELSE CAdd(v[1], CSum(Tail(v)))

RECURSIVE Sum(_)
Sum(v) == IF Len(v) = 0 THEN 0 ELSE v[1] + Sum(Tail(v))

\* the overlap left out: a plain copy of psi
MultiplyOverlapCopiesOnly(S, inPsi) == inPsi

\* lines 300-310: a copy of psi with the overlap matrix S applied to each row
MultiplyOverlap(S, inPsi) ==
    [a \in 1..Len(inPsi) |->
        [r \in 1..Len(S) |->
            CSum([c \in 1..Len(S) |-> CMul(<<S[r][c], 0>>, inPsi[a][c])])]]

\* lines 65 and 87: dot(conj(curV.transpose()), psiSlice), one entry per eigenvector
Projections(curV, psiSlice) ==
    [k \in 1..Len(curV) |->
        CSum([r \in 1..Len(psiSlice) |-> CMul(Conj(curV[k][r]), psiSlice[r])])]

\* lines 88-89: psi[angIdx, :] -= p * v for each (p, v) of zip(proj, curV)
RECURSIVE SubtractAll(_, _, _)
SubtractAll(row, proj, curV) ==
    IF Len(proj) = 0 THEN row
    ELSE SubtractAll([r \in 1..Len(row) |-> CSub(row[r], CMul(proj[1], curV[1][r]))],
                     Tail(proj), Tail(curV))

\* line 84: what self.Eigenstate.IterateBoundStates(self.BoundThreshold) yields
IterateBoundStates(w) == w.bound

\* lines 82-89: the loop over the bound states, from first to last
RECURSIVE RemoveLoop(_, _, _)
RemoveLoop(psi, overlapPsi, states) ==
    IF Len(states) = 0 THEN psi
    ELSE LET angIdx == states[1].angIdx
             curV == states[1].curV
             proj == Projections(curV, overlapPsi[angIdx])
         IN RemoveLoop([psi EXCEPT ![angIdx] = SubtractAll(@, proj, curV)],
                       overlapPsi, Tail(states))

\* lines 76-89
RemoveProjection(w) ==
    RemoveLoop(w.psi, MultiplyOverlap(w.S, w.psi), IterateBoundStates(w))

\* lines 47-73 and 108: boundTotal
BoundTotal(w) ==
    LET overlapPsi == MultiplyOverlap(w.S, w.psi)
        states == IterateBoundStates(w)
    IN Sum([j \in 1..Len(states) |->
              LET proj == Projections(states[j].curV, overlapPsi[states[j].angIdx])
              IN Sum([k \in 1..Len(proj) |-> Abs2(proj[k])])])

\* overlap matrices of a two-function radial basis, and for each the bound
\* states of a catalog: the last catalog is not orthonormal
Catalogs ==
    { [S |-> <<<<1, 0>>, <<0, 1>>>>,
       bound |-> << [angIdx |-> 1, curV |-> << <<<<1, 0>>, <<0, 0>>>> >>],
                    [angIdx |-> 2, curV |-> << <<<<0, 0>>, <<0, 1>>>>,
                                               <<<<0, 1>>, <<0, 0>>>> >>] >>],
      [S |-> <<<<2, 1>>, <<1, 1>>>>,
       bound |-> << [angIdx |-> 1, curV |-> << <<<<0, 0>>, <<1, 0>>>>,
                                               <<<<1, 0>>, <<-1, 0>>>> >>],
                    [angIdx |-> 2, curV |-> << <<<<0, 0>>, <<0, 1>>>> >>] >>],
      [S |-> <<<<2, 1>>, <<1, 1>>>>,
       bound |-> << [angIdx |-> 2, curV |-> << <<<<0, 1>>, <<0, -1>>>> >>] >>],
      [S |-> <<<<1, 0>>, <<0, 1>>>>,
       bound |-> << [angIdx |-> 1, curV |-> << <<<<1, 0>>, <<1, 0>>>>,
                                               <<<<1, 0>>, <<0, 0>>>> >>] >>] }

Amplitudes == {<<0, 0>>, <<1, 0>>, <<0, 1>>}

InitWave ==
    /\ \E cat \in Catalogs, psi \in [1..MaxBlocks -> [1..2 -> Amplitudes]] :
          wave = [S |-> cat.S, bound |-> cat.bound, psi0 |-> psi, psi |-> psi,
                  removals |-> 0, before |-> psi, boundTotal |-> None]
    /\ nprocs = 0 /\ conf = <<>> /\ solver = <<>> /\ filename = <<>> /\ pc = <<>>
    /\ idx = <<>> /\ turn = <<>> /\ store = <<>> /\ log = <<>> /\ did = <<>>
    /\ fail = {} /\ loadRes = <<>> /\ piram = <<>> /\ dens = <<>>

\* RemoveProjectionOnBoundStates(psi), called at most twice; "before" keeps
\* psi as it was when the call began
RemoveProjectionOnBoundStates ==
    /\ wave.removals < 2
    /\ wave' = [wave EXCEPT !.psi = RemoveProjection(wave), !.before = wave.psi,
                            !.removals = @ + 1, !.boundTotal = None]
    /\ UNCHANGED <<nprocs, conf, solver, filename, pc, idx, turn, store, log, did, fail,
                   loadRes, piram, dens>>

\* CalculateBoundProbability(psi)
CalculateBoundProbability ==
    /\ wave.boundTotal = None
    /\ wave' = [wave EXCEPT !.boundTotal = Some(BoundTotal(wave))]
    /\ UNCHANGED <<nprocs, conf, solver, filename, pc, idx, turn, store, log, did, fail,
                   loadRes, piram, dens>>

NextWave == RemoveProjectionOnBoundStates \/ CalculateBoundProbability

SpecWave == InitWave /\ [][NextWave]_vars

\* <v, S w> for two radial vectors
Inner(S, v, w) ==
    CSum([r \in 1..Len(S) |->
            CMul(Conj(v[r]), CSum([c \in 1..Len(S) |-> CMul(<<S[r][c], 0>>, w[c])]))])

\* the bound eigenvectors are orthonormal with respect to the overlap
Orthonormal(w) ==
    \A j \in 1..Len(w.bound) :
        \A k, n \in 1..Len(w.bound[j].curV) :
            Inner(w.S, w.bound[j].curV[k], w.bound[j].curV[n])
                = IF k = n THEN <<1, 0>> ELSE <<0, 0>>

\* psi with, in every block, the projections of "from" on the block's bound
\* eigenvectors taken away
WithoutBound(w, from) ==
    [a \in 1..Len(from) |-> [r \in 1..Len(w.S) |->
        CSub(from[a][r],
             CSum([j \in 1..Len(w.bound) |->
                     IF w.bound[j].angIdx # a THEN <<0, 0>>
                     ELSE CSum([k \in 1..Len(w.bound[j].curV) |->
                                  CMul(Inner(w.S, w.bound[j].curV[k], from[a]),
                                       w.bound[j].curV[k][r])])]))]]

\* C8: for a catalog orthonormal with respect to the overlap, after
\* RemoveProjectionOnBoundStates the bound probability is 0 and a second
\* removal leaves psi unchanged; every projection subtracted is the one of
\* psi as it was when the call began.
C8_RemovalLeavesNoBoundPart ==
    /\ wave.removals >= 1 => wave.psi = WithoutBound(wave, wave.before)
    /\ (Orthonormal(wave) /\ wave.removals >= 1 /\ wave.boundTotal # None)
       => wave.boundTotal = Some(0)
    /\ (Orthonormal(wave) /\ wave.removals = 2) => wave.psi = wave.before

C8_Witness ==
    /\ Orthonormal(wave)
    /\ wave.removals = 2
    /\ wave.boundTotal = Some(0)
    /\ wave.psi # wave.psi0
    /\ wave.S[1][2] # 0
    /\ \E j \in 1..Len(wave.bound) : Len(wave.bound[j].curV) = 2

====
